---- MODULE Spec2Model ----
(***************************************************************************)
(* Golay(23,12) codec of yyyoichi/golay: the tables g and h, encode,       *)
(* decode and correctErrors of golay.go, driven by a channel that flips    *)
(* bits of an encoded block before it is decoded.                          *)
(*                                                                         *)
(* A Go []bool of length n is a function 0..n-1 -> BOOLEAN.  The flat      *)
(* tables g and h are tuples, so the Go index k is the TLA+ index k+1.     *)
(***************************************************************************)
EXTENDS Integers, FiniteSets, Sequences, TLC

\* ---- sizes fixed by the code ------------------------------------------
\* a block is 12 data bits and 11 parity bits
BlockBits == 23

\* ---- bounds of the model ----------------------------------------------
\* data words encoded under Spec are Word(0) .. Word(MaxWord)
MaxWord == 3
\* the channel flips at most MaxErrors distinct positions of a block
MaxErrors == 3

\* ---- tables -------------------------------------------------------------
\* G[row][col] = g[row*11 + col]
g ==
  <<
    TRUE, FALSE, TRUE, FALSE, TRUE, TRUE, TRUE, FALSE, FALSE, FALSE, TRUE,
    TRUE, TRUE, FALSE, TRUE, FALSE, TRUE, TRUE, TRUE, FALSE, FALSE, FALSE,
    TRUE, TRUE, TRUE, FALSE, TRUE, FALSE, TRUE, TRUE, TRUE, FALSE, FALSE,
    TRUE, TRUE, TRUE, TRUE, FALSE, TRUE, FALSE, TRUE, TRUE, TRUE, FALSE,
    TRUE, TRUE, TRUE, TRUE, TRUE, FALSE, TRUE, FALSE, TRUE, TRUE, TRUE,
    FALSE, TRUE, TRUE, TRUE, TRUE, TRUE, FALSE, TRUE, FALSE, TRUE, TRUE,
    FALSE, FALSE, TRUE, TRUE, TRUE, TRUE, TRUE, FALSE, TRUE, FALSE, TRUE,
    TRUE, FALSE, FALSE, TRUE, TRUE, TRUE, TRUE, TRUE, FALSE, TRUE, FALSE,
    FALSE, TRUE, FALSE, FALSE, TRUE, TRUE, TRUE, TRUE, TRUE, FALSE, TRUE,
    TRUE, FALSE, TRUE, FALSE, FALSE, TRUE, TRUE, TRUE, TRUE, TRUE, FALSE,
    FALSE, TRUE, FALSE, TRUE, FALSE, FALSE, TRUE, TRUE, TRUE, TRUE, TRUE,
    TRUE, FALSE, TRUE, TRUE, TRUE, FALSE, FALSE, TRUE, TRUE, TRUE, TRUE
  >>

\* rows 0..11 of h
hUpper ==
  <<
    TRUE, FALSE, TRUE, FALSE, TRUE, TRUE, TRUE, FALSE, FALSE, FALSE, TRUE,
    TRUE, TRUE, FALSE, TRUE, FALSE, TRUE, TRUE, TRUE, FALSE, FALSE, FALSE,
    TRUE, TRUE, TRUE, FALSE, TRUE, FALSE, TRUE, TRUE, TRUE, FALSE, FALSE,
    TRUE, TRUE, TRUE, TRUE, FALSE, TRUE, FALSE, TRUE, TRUE, TRUE, FALSE,
    TRUE, TRUE, TRUE, TRUE, TRUE, FALSE, TRUE, FALSE, TRUE, TRUE, TRUE,
    FALSE, TRUE, TRUE, TRUE, TRUE, TRUE, FALSE, TRUE, FALSE, TRUE, TRUE,
    FALSE, FALSE, TRUE, TRUE, TRUE, TRUE, TRUE, FALSE, TRUE, FALSE, TRUE,
    TRUE, FALSE, FALSE, TRUE, TRUE, TRUE, TRUE, TRUE, FALSE, TRUE, FALSE,
    FALSE, TRUE, FALSE, FALSE, TRUE, TRUE, TRUE, TRUE, TRUE, FALSE, TRUE,
    TRUE, FALSE, TRUE, FALSE, FALSE, TRUE, TRUE, TRUE, TRUE, TRUE, FALSE,
    FALSE, TRUE, FALSE, TRUE, FALSE, FALSE, TRUE, TRUE, TRUE, TRUE, TRUE,
    TRUE, FALSE, TRUE, TRUE, TRUE, FALSE, FALSE, TRUE, TRUE, TRUE, TRUE
  >>

\* rows 12..22 of h
hIdentity ==
  <<
    TRUE, FALSE, FALSE, FALSE, FALSE, FALSE, FALSE, FALSE, FALSE, FALSE, FALSE,
    FALSE, TRUE, FALSE, FALSE, FALSE, FALSE, FALSE, FALSE, FALSE, FALSE, FALSE,
    FALSE, FALSE, TRUE, FALSE, FALSE, FALSE, FALSE, FALSE, FALSE, FALSE, FALSE,
    FALSE, FALSE, FALSE, TRUE, FALSE, FALSE, FALSE, FALSE, FALSE, FALSE, FALSE,
    FALSE, FALSE, FALSE, FALSE, TRUE, FALSE, FALSE, FALSE, FALSE, FALSE, FALSE,
    FALSE, FALSE, FALSE, FALSE, FALSE, TRUE, FALSE, FALSE, FALSE, FALSE, FALSE,
    FALSE, FALSE, FALSE, FALSE, FALSE, FALSE, TRUE, FALSE, FALSE, FALSE, FALSE,
    FALSE, FALSE, FALSE, FALSE, FALSE, FALSE, FALSE, TRUE, FALSE, FALSE, FALSE,
    FALSE, FALSE, FALSE, FALSE, FALSE, FALSE, FALSE, FALSE, TRUE, FALSE, FALSE,
    FALSE, FALSE, FALSE, FALSE, FALSE, FALSE, FALSE, FALSE, FALSE, TRUE, FALSE,
    FALSE, FALSE, FALSE, FALSE, FALSE, FALSE, FALSE, FALSE, FALSE, FALSE, TRUE
  >>

\* h with the identity block first
hSwapped == hIdentity \o hUpper

\* H[row][col] = h[row*11 + col]
h == hUpper \o hIdentity

\* ---- helpers ------------------------------------------------------------
Positions == 0 .. (BlockBits - 1)

xorBool(a, b) == a # b

\* the result of toggling a bool once for every element of S, from false
Toggled(S) == Cardinality(S) % 2 = 1

\* copy(dst, src[len(src)-n:]): the last n elements instead of the first
PrefixTail(s, n) == [k \in 0 .. (n - 1) |-> s[k + Cardinality(DOMAIN s) - n]]

\* copy(dst, src[:n]) into a fresh slice of n elements
Prefix(s, n) == [k \in 0 .. (n - 1) |-> s[k]]

\* ---- encode -------------------------------------------------------------
\* encode reading g by columns: g[i*12 + j]
encodeTransposed(data) ==
  [i \in 0 .. 10 |-> Toggled({j \in 0 .. 11 : data[j] /\ g[i * 12 + j + 1]})]

\* encode with p = true in place of p = !p
encodeSticky(data) ==
  [i \in 0 .. 10 |-> \E j \in 0 .. 11 : data[j] /\ g[j * 11 + i + 1]]

\* the 11 parity bits of 12 data bits
encode(data) ==
  [i \in 0 .. 10 |-> Toggled({j \in 0 .. 11 : data[j] /\ g[j * 11 + i + 1]})]

\* 12 data bits followed by their 11 parity bits
encodeHelper(data) ==
  LET parity == encode(data)
  IN  [k \in Positions |-> IF k < 12 THEN data[k] ELSE parity[k - 12]]

\* ---- decode -------------------------------------------------------------
\* the syndrome loop stopping one bit early: j over range 22
SyndromeShort(received) ==
  [i \in 0 .. 10 |-> Toggled({j \in 0 .. 21 : received[j] /\ h[j * 11 + i + 1]})]

\* S = H^T * r
Syndrome(received) ==
  [i \in 0 .. 10 |-> Toggled({j \in 0 .. 22 : received[j] /\ h[j * 11 + i + 1]})]

isZero(syndrome) == \A i \in 0 .. 10 : ~syndrome[i]

\* a copy of received with only the first position of P inverted
FlippedFirst(received, P) ==
  [k \in Positions |->
     IF k \in P /\ (\A q \in P : k <= q) THEN ~received[k] ELSE received[k]]

\* a copy of received with the positions of P inverted
Flipped(received, P) ==
  [k \in Positions |-> IF k \in P THEN ~received[k] ELSE received[k]]

\* row pos of H
hRow ==
  [pos \in Positions |-> [k \in 0 .. 10 |-> h[pos * 11 + k + 1]]]

\* testSyndrome of the 2-bit loops, for every i and j
testSyndrome2 ==
  [i \in Positions |-> [j \in Positions |->
    [k \in 0 .. 10 |-> xorBool(h[i * 11 + k + 1], h[j * 11 + k + 1])]]]

\* testSyndrome of the 3-bit loops, for every i < j < l
testSyndrome3 ==
  [i \in Positions |-> [j \in (i + 1) .. 22 |-> [l \in (j + 1) .. 22 |->
    [k \in 0 .. 10 |->
      xorBool(xorBool(h[i * 11 + k + 1], h[j * 11 + k + 1]), h[l * 11 + k + 1])]]]]

match1(syndrome, pos) == syndrome = hRow[pos]

match2(syndrome, i, j) == testSyndrome2[i][j] = syndrome

match3(syndrome, i, j, l) == testSyndrome3[i][j][l] = syndrome

Least(S) == CHOOSE x \in S : \A y \in S : x <= y

\* the 1-bit loop starting at position 1
search1SkipFirst(syndrome) ==
  LET ps == {pos \in 1 .. 22 : match1(syndrome, pos)}
  IN  IF ps = {} THEN {} ELSE {Least(ps)}

\* the first position of the 1-bit loop that matches, as a set; {} if none
search1(syndrome) ==
  LET ps == {pos \in Positions : match1(syndrome, pos)}
  IN  IF ps = {} THEN {} ELSE {Least(ps)}

\* the first pair (i, j) of the 2-bit loops that matches; {} if none
search2(syndrome) ==
  LET is == {i \in Positions : \E j \in (i + 1) .. 22 : match2(syndrome, i, j)}
  IN  IF is = {} THEN {}
      ELSE LET i == Least(is)
               j == Least({j \in (i + 1) .. 22 : match2(syndrome, i, j)})
           IN  {i, j}

\* the 3-bit loops with the outer loop running from position 22 down
search3Descending(syndrome) ==
  LET is == {i \in Positions :
               \E j \in (i + 1) .. 22 : \E l \in (j + 1) .. 22 :
                 match3(syndrome, i, j, l)}
  IN  IF is = {} THEN {}
      ELSE LET i == CHOOSE x \in is : \A y \in is : x >= y
               j == Least({j \in (i + 1) .. 22 :
                             \E l \in (j + 1) .. 22 : match3(syndrome, i, j, l)})
               l == Least({l \in (j + 1) .. 22 : match3(syndrome, i, j, l)})
           IN  {i, j, l}

\* the first triple (i, j, l) of the 3-bit loops that matches; {} if none
search3(syndrome) ==
  LET is == {i \in Positions :
               \E j \in (i + 1) .. 22 : \E l \in (j + 1) .. 22 :
                 match3(syndrome, i, j, l)}
  IN  IF is = {} THEN {}
      ELSE LET i == Least(is)
               j == Least({j \in (i + 1) .. 22 :
                             \E l \in (j + 1) .. 22 : match3(syndrome, i, j, l)})
               l == Least({l \in (j + 1) .. 22 : match3(syndrome, i, j, l)})
           IN  {i, j, l}

Syndromes == [0 .. 10 -> BOOLEAN]

\* the searches of correctErrors without the 3-bit loop
searchLoopsNoThree(syndrome) ==
  LET p1 == search1(syndrome)
  IN  IF p1 # {} THEN [ret |-> "one", flips |-> p1]
      ELSE
        LET p2 == search2(syndrome)
        IN  IF p2 # {} THEN [ret |-> "two", flips |-> p2]
            ELSE [ret |-> "fallback", flips |-> {}]

\* the three searches of correctErrors in their order: the return statement
\* that is taken for a syndrome and the positions it inverts
searchLoops(syndrome) ==
  LET p1 == search1(syndrome)
  IN  IF p1 # {} THEN [ret |-> "one", flips |-> p1]
      ELSE
        LET p2 == search2(syndrome)
        IN  IF p2 # {} THEN [ret |-> "two", flips |-> p2]
            ELSE
              LET p3 == search3(syndrome)
              IN  IF p3 # {} THEN [ret |-> "three", flips |-> p3]
                  ELSE [ret |-> "fallback", flips |-> {}]

\* correctErrors without the copy before its last return: a zeroed slice
correctErrorsNoCopy(received, syndrome) ==
  LET m == searchLoops(syndrome)
  IN  [corrected |-> IF m.ret = "fallback"
                     THEN [k \in Positions |-> FALSE]
                     ELSE Flipped(received, m.flips),
       ret |-> m.ret, flips |-> m.flips]

\* correctErrors: the returned slice, the return statement that was taken
\* and the positions that were inverted
correctErrors(received, syndrome) ==
  LET m == searchLoops(syndrome)
  IN  [corrected |-> Flipped(received, m.flips), ret |-> m.ret, flips |-> m.flips]

\* decode into a data slice of n <= 12 elements
decode(received, n) ==
  LET s == Syndrome(received)
      c == IF isZero(s)
           THEN [corrected |-> received, ret |-> "zero", flips |-> {}]
           ELSE correctErrors(received, s)
  IN  [syndrome |-> s, corrected |-> c.corrected, ret |-> c.ret,
       flips |-> c.flips, data |-> Prefix(c.corrected, n)]

\* ---- state --------------------------------------------------------------
VARIABLES
  pc,        \* "idle", "encoded" or "decoded"
  data,      \* the 12 data bits given to encode
  received,  \* the 23-bit block handed to decode
  errs,      \* positions where received differs from the encoded block
  syndrome,  \* decode's syndrome
  corrected, \* decode's corrected block
  ret,       \* the return taken: "zero", "one", "two", "three", "fallback"
  flips,     \* the positions correctErrors inverted
  out,       \* the data slice decode wrote
  writer,    \* stream Encoder: the bits written so far
  bits,      \* stream Encoder: its field bits
  output,    \* stream Encoder: the slice behind outputPtr
  calls,     \* the valid input bit counts of the Encode calls that returned nil
  err,       \* what the last Encode call returned
  blocks,    \* accumulating Encoder: its stored codewords
  returned,  \* what the last accessor of the accumulating Encoder returned
  lens,      \* the lengths given to WriteBools since the last Reset
  input,     \* the slice given to the last WriteBools
  heap,      \* the arrays after the last call that ran on the heap
  decoded,   \* accumulating Decoder: its decoded 12-bit blocks
  wrote,     \* the codewords handed to the Decoder since its last Reset
  expect,    \* decoded as WriteCodewords would have left it at the last write
  via        \* the method of the last write to the Decoder

codecVars == <<pc, data, received, errs, syndrome, corrected, ret, flips, out>>
encoderVars == <<writer, bits, output, calls, err>>
accumulatorVars == <<blocks, returned, lens, input>>
decoderVars == <<decoded, wrote, expect, via>>
vars == <<codecVars, encoderVars, accumulatorVars, decoderVars, heap>>

Zeros(n) == [k \in 0 .. (n - 1) |-> FALSE]

Weight(s) == Cardinality({k \in DOMAIN s : s[k]})

\* the 12 bits of n, most significant first
Bits12(n) == [k \in 0 .. 11 |-> (n \div (2 ^ (11 - k))) % 2 = 1]

\* the data words of Spec: odd multiples spread the set bits over the word
Word(n) == Bits12((n * 2731) % 4096)

AllWords == [0 .. 11 -> BOOLEAN]

\* NewEncoder(&output) of the stream API and NewEncoder() of the accumulating
\* one
InitEncoders ==
  /\ writer = << >>
  /\ bits = 0
  /\ output = << >>
  /\ calls = << >>
  /\ err = "none"
  /\ blocks = << >>
  /\ returned = "none"
  /\ lens = << >>
  /\ input = << >>
  /\ decoded = << >>
  /\ wrote = << >>
  /\ expect = << >>
  /\ via = "none"
  /\ heap = << >>

Init ==
  /\ InitEncoders
  /\ pc = "idle"
  /\ data = Zeros(12)
  /\ received = Zeros(23)
  /\ errs = {}
  /\ syndrome = Zeros(11)
  /\ corrected = Zeros(23)
  /\ ret = "none"
  /\ flips = {}
  /\ out = Zeros(12)

\* encodeHelper(d) for some data word d of Words: the block, not yet sent
EncodeBlock(Words) ==
  /\ pc = "idle"
  /\ \E d \in Words :
       /\ data' = d
       /\ received' = encodeHelper(d)
  /\ pc' = "encoded"
  /\ errs' = {}
  /\ UNCHANGED <<syndrome, corrected, ret, flips, out,
               encoderVars, accumulatorVars, decoderVars, heap>>

\* the channel inverts one more position of the block, up to limit positions
FlipBit(limit) ==
  /\ pc = "encoded"
  /\ Cardinality(errs) < limit
  /\ \E p \in Positions \ errs :
       /\ received' = [received EXCEPT ![p] = ~received[p]]
       /\ errs' = errs \cup {p}
  /\ UNCHANGED <<pc, data, syndrome, corrected, ret, flips, out,
               encoderVars, accumulatorVars, decoderVars, heap>>

\* the channel replaces the 11 parity bits of an intact block by other bits
GarbleParity ==
  /\ pc = "encoded"
  /\ errs = {}
  /\ \E s \in Syndromes :
       /\ received' = [k \in Positions |-> IF k < 12 THEN received[k] ELSE s[k - 12]]
       /\ errs' = {k \in 12 .. 22 : received[k] # s[k - 12]}
       /\ errs' # {}
  /\ UNCHANGED <<pc, data, syndrome, corrected, ret, flips, out,
               encoderVars, accumulatorVars, decoderVars, heap>>

\* decode(received, make([]bool, 12))
DecodeBlock ==
  /\ pc = "encoded"
  /\ \E r \in {decode(received, 12)} :
         /\ syndrome' = r.syndrome
         /\ corrected' = r.corrected
         /\ ret' = r.ret
         /\ flips' = r.flips
         /\ out' = r.data
  /\ pc' = "decoded"
  /\ UNCHANGED <<data, received, errs,
               encoderVars, accumulatorVars, decoderVars, heap>>

\* a few data words, up to MaxErrors flipped bits or arbitrary parity bits
Next ==
  \/ EncodeBlock({Word(n) : n \in 0 .. MaxWord})
  \/ FlipBit(MaxErrors)
  \/ GarbleParity
  \/ DecodeBlock

Spec == Init /\ [][Next]_vars

\* every 12-bit data word, at most one flipped bit
NextAll ==
  \/ EncodeBlock(AllWords)
  \/ FlipBit(1)
  \/ DecodeBlock

SpecAll == Init /\ [][NextAll]_vars

\* ---- properties ----------------------------------------------------------
Decoded == pc = "decoded"

\* the sets of 1, 2 or 3 positions whose h rows XOR to the syndrome s
Matching(s) ==
  {{p} : p \in {q \in Positions : match1(s, q)}}
    \cup {{t[1], t[2]} : t \in {u \in Positions \X Positions :
                                  u[1] < u[2] /\ match2(s, u[1], u[2])}}
    \cup {{t[1], t[2], t[3]} : t \in {u \in Positions \X Positions \X Positions :
                                  /\ u[1] < u[2]
                                  /\ u[2] < u[3]
                                  /\ match3(s, u[1], u[2], u[3])}}

\* C1: a block with 0, 1, 2 or 3 flipped bits decodes to the data word that
\* was encoded.
C1_CorrectsUpToThree ==
  (Decoded /\ Cardinality(errs) <= 3) => out = data

\* C2: an unmodified block decodes to its data word, with a zero syndrome and
\* no bit inverted.
C2_RoundTrip ==
  (Decoded /\ errs = {}) =>
    /\ out = data
    /\ isZero(syndrome)
    /\ ret = "zero"
    /\ flips = {}
    /\ corrected = received

C2_Witness ==
  Decoded /\ errs = {} /\ Weight(data) = 12 /\ out = data

\* C3: a block with exactly one flipped bit, at any position, decodes to the
\* data word that was encoded; the 1-bit loop inverts that position.
C3_SingleBit ==
  (Decoded /\ Cardinality(errs) = 1) =>
    /\ out = data
    /\ ret = "one"
    /\ flips = errs

C3_Witness ==
  Decoded /\ errs = {22} /\ Weight(data) = 12 /\ out = data

\* C4: a block with exactly two flipped bits, at any pair of positions,
\* decodes to the data word that was encoded.
C4_TwoBits ==
  (Decoded /\ Cardinality(errs) = 2) => out = data

\* C5: at most one set of 1, 2 or 3 positions has h rows that XOR to the
\* syndrome of a received block.
C5_UniquePattern ==
  Decoded => Cardinality(Matching(syndrome)) <= 1

\* C6: the block of every nonzero data word has at least 7 bits set.
C6_MinimumDistance ==
  (pc = "encoded" /\ errs = {} /\ Weight(data) > 0) => Weight(received) >= 7

\* C7: the syndrome of a received block is zero exactly when its last 11 bits
\* are the parity encode computes for its first 12 bits.
C7_ZeroSyndromeIffCodeword ==
  Decoded =>
    (isZero(syndrome) <=> received = encodeHelper(Prefix(received, 12)))

C7_Witness ==
  Decoded /\ errs # {} /\ ~isZero(syndrome) /\ Weight(data) > 0

C9_PerfectCoverage ==
  (Decoded /\ ~isZero(syndrome)) => ret \in {"one", "two", "three"}

\* C10: at every point of a run (before encoding, after encoding, after
\* decoding) rows 0..11 of h are rows 0..11 of g, and row 12+i of h has only
\* column i set.
C10_MatrixSelfConsistent ==
  pc \in {"idle", "encoded", "decoded"} =>
    /\ \A row \in 0 .. 11 : \A col \in 0 .. 10 :
         h[row * 11 + col + 1] = g[row * 11 + col + 1]
    /\ \A i \in 0 .. 10 : \A col \in 0 .. 10 :
         h[(12 + i) * 11 + col + 1] = (i = col)

C10_Witness ==
  /\ Decoded
  /\ \E j \in 0 .. 11 : received[j]
  /\ \E j \in 12 .. 22 : received[j]
  /\ ~isZero(syndrome)

\* C11: the block of the all-ones data word is all ones: its 11 parity bits
\* are all set (the 32-bit word 0xFFFFFE00 of the stream test).
C11_AllOnesCodeword ==
  (pc = "encoded" /\ errs = {} /\ (\A j \in 0 .. 11 : data[j])) =>
    \A k \in Positions : received[k]

\* the weight-4 anchor: bits 0..3 of the 23-bit word, which are the last four
\* parity bits, positions 19..22 of the block
AnchorBits == {22 - i : i \in 0 .. 3}

AnchorDecoded ==
  Decoded /\ data = Zeros(12) /\ errs = AnchorBits

\* C12 as stated: decoding the all-zero block with the four anchor bits
\* inverted ends and either writes the data word 0 or takes the return of
\* correctErrors that corrects nothing (the uncorrectable outcome).
C12_AnchorZeroOrUncorrectable ==
  AnchorDecoded => (out = Zeros(12) \/ ret = "fallback")

\* C12 as amended: decoding the all-zero block with the four anchor bits
\* inverted ends in the 3-bit loop, which inverts positions 0, 9 and 16, and
\* the data slice gets the nonzero word with bits 0 and 9 set.
C12_AnchorMiscorrected ==
  AnchorDecoded =>
    /\ syndrome = [i \in 0 .. 10 |-> i >= 7]
    /\ ret = "three"
    /\ flips = {0, 9, 16}
    /\ corrected = Flipped(received, flips)
    /\ out = [k \in 0 .. 11 |-> k \in {0, 9}]

C12_Witness ==
  AnchorDecoded /\ Weight(received) = 4 /\ Weight(out) = 2

(***************************************************************************)
(* The public Encode and Decode on bit slices of any length.  A slice of   *)
(* length 0 is the function with the empty domain.                         *)
(***************************************************************************)
MaxLen == 13
MaxPeriod == 3

Length(s) == Cardinality(DOMAIN s)
Min(a, b) == IF a < b THEN a ELSE b

\* block i of the input with its 12 bits in reverse order
ChunkReversed(d, i) ==
  [t \in 0 .. 11 |->
     IF i * 12 + (11 - t) < Length(d) THEN d[i * 12 + (11 - t)] ELSE FALSE]

\* block i of the input: data[12i : min(12i + 12, len)] copied into 12 bits
\* that make() left false
Chunk(d, i) ==
  [t \in 0 .. 11 |-> IF i * 12 + t < Length(d) THEN d[i * 12 + t] ELSE FALSE]

\* Encode with the number of blocks rounded down
EncodeFloor(d) ==
  LET numBlocks == Length(d) \div 12
      cws == [i \in 0 .. (numBlocks - 1) |-> encodeHelper(Chunk(d, i))]
  IN  [k \in 0 .. (numBlocks * 23 - 1) |-> cws[k \div 23][k % 23]]

\* Encode: numBlocks blocks of 23 bits, block i holding chunk i and the
\* parity encode writes for it; the empty slice for the empty input
Encode(d) ==
  IF Length(d) = 0 THEN << >>
  ELSE
    LET numBlocks == (Length(d) + 11) \div 12
        cws == [i \in 0 .. (numBlocks - 1) |-> encodeHelper(Chunk(d, i))]
    IN  [k \in 0 .. (numBlocks * 23 - 1) |-> cws[k \div 23][k % 23]]

\* received[23i : 23i + 23]
Block(rcv, i) == [j \in Positions |-> rcv[i * 23 + j]]

\* Decode that leaves the positions after the decoded blocks as they were
DecodeNoFill(rcv, buf) ==
  IF Length(buf) = 0 THEN buf
  ELSE
    LET numBlocksNeeded == (Length(buf) + 11) \div 12
        numBlocksAvailable == Length(rcv) \div 23
        numBlocks == Min(numBlocksAvailable, numBlocksNeeded)
        decodeLen == [i \in 0 .. (numBlocks - 1) |->
                        IF Length(buf) - i * 12 < 12
                        THEN Length(buf) - i * 12 ELSE 12]
        written == [i \in 0 .. (numBlocks - 1) |->
                      decode(Block(rcv, i), decodeLen[i]).data]
    IN  [k \in 0 .. (Length(buf) - 1) |->
           IF k < numBlocks * 12 THEN written[k \div 12][k % 12]
           ELSE buf[k]]

\* Decode: the slice data after the call, given the slice before it.
\* Block i is decoded into data[12i : 12i + decodeLen]; the positions from
\* 12 * numBlocks on are set to false.
Decode(rcv, buf) ==
  IF Length(buf) = 0 THEN buf
  ELSE
    LET numBlocksNeeded == (Length(buf) + 11) \div 12
        numBlocksAvailable == Length(rcv) \div 23
        numBlocks == Min(numBlocksAvailable, numBlocksNeeded)
        decodeLen == [i \in 0 .. (numBlocks - 1) |->
                        IF Length(buf) - i * 12 < 12
                        THEN Length(buf) - i * 12 ELSE 12]
        written == [i \in 0 .. (numBlocks - 1) |->
                      decode(Block(rcv, i), decodeLen[i]).data]
    IN  [k \in 0 .. (Length(buf) - 1) |->
           IF k < numBlocks * 12 THEN written[k \div 12][k % 12]
           ELSE FALSE]

\* DecodedBits counting a trailing partial codeword as a block
DecodedBitsCeil(nbits) == ((nbits + 22) \div 23) * 12

\* the size helpers of the stream API
EncodedBits(nbits) == ((nbits + 11) \div 12) * 23
DecodedBits(nbits) == (nbits \div 23) * 12

\* Bits() of a stream Encoder / Decoder whose reader holds readerBits bits
EncoderBits(readerBits) == ((readerBits + 11) \div 12) * 23
DecoderBits(readerBits) == (readerBits \div 23) * 12

\* input slices: every p-th bit set, as the round trip test fills its data
Pattern(n, p) == [k \in 0 .. (n - 1) |-> k % p = 0]

InitPublic ==
  /\ InitEncoders
  /\ pc = "idle"
  /\ data = << >>
  /\ received = << >>
  /\ out = << >>
  /\ errs = {}
  /\ syndrome = Zeros(11)
  /\ corrected = Zeros(23)
  /\ ret = "none"
  /\ flips = {}

\* encoded := Encode(data)
CallEncode ==
  /\ pc = "idle"
  /\ \E n \in 0 .. MaxLen : \E p \in 1 .. MaxPeriod :
       /\ data' = Pattern(n, p)
       /\ received' = Encode(Pattern(n, p))
  /\ pc' = "encoded"
  /\ UNCHANGED <<errs, syndrome, corrected, ret, flips, out,
               encoderVars, accumulatorVars, decoderVars, heap>>

\* the caller keeps encoded[:len] only
Truncate ==
  /\ pc = "encoded"
  /\ \E len \in 0 .. (Length(received) - 1) : received' = Prefix(received, len)
  /\ UNCHANGED <<pc, data, errs, syndrome, corrected, ret, flips, out,
               encoderVars, accumulatorVars, decoderVars, heap>>

\* Decode(received, decoded) for a slice decoded of any length whose elements
\* are all false (as make returns it) or all true before the call
CallDecode ==
  /\ pc = "encoded"
  /\ \E m \in 0 .. MaxLen : \E fill \in BOOLEAN :
       out' = Decode(received, [k \in 0 .. (m - 1) |-> fill])
  /\ pc' = "decoded"
  /\ UNCHANGED <<data, received, errs, syndrome, corrected, ret, flips,
               encoderVars, accumulatorVars, decoderVars, heap>>

\* one bit of the encoded slice is inverted in transit: the first bit of one
\* of its blocks
Damage ==
  /\ pc = "encoded"
  /\ errs = {}
  /\ \E i \in 0 .. ((Length(received) \div 23) - 1) :
       /\ received' = [received EXCEPT ![i * 23] = ~received[i * 23]]
       /\ errs' = {i * 23}
  /\ UNCHANGED <<pc, data, syndrome, corrected, ret, flips, out,
               encoderVars, accumulatorVars, decoderVars, heap>>

NextPublic == CallEncode \/ Truncate \/ Damage \/ CallDecode
SpecPublic == InitPublic /\ [][NextPublic]_vars

\* ceil(n / 12): the least q with 12 q >= n
CeilDiv12(n) ==
  CHOOSE q \in 0 .. n : 12 * q >= n /\ \A r \in 0 .. n : 12 * r >= n => q <= r

FloorDiv23(n) == CHOOSE q \in 0 .. n : 23 * q <= n /\ n < 23 * (q + 1)

\* C14: for n >= 0 encoded bits DecodedBits(n) and Bits() of a stream Decoder
\* holding n bits are floor(n/23) * 12, so the bits of a trailing partial
\* codeword do not count; 48 bits give 24 and 184 bits give 96.
C14_DecodedSize ==
  pc = "encoded" =>
    LET n == Length(received)
    IN  /\ DecodedBits(n) = FloorDiv23(n) * 12
        /\ DecoderBits(n) = FloorDiv23(n) * 12
        /\ DecodedBits(n) = DecodedBits(n - (n % 23))
        /\ DecoderBits(n) = DecoderBits(n - (n % 23))
        /\ DecodedBits(48) = 24 /\ DecoderBits(48) = 24
        /\ DecodedBits(184) = 96 /\ DecoderBits(184) = 96

C14_Witness ==
  pc = "encoded" /\ Length(received) = 30 /\ DecodedBits(Length(received)) = 12

\* C15: for a slice data of length n >= 1 and a slice buf of the same length,
\* Decode(Encode(data), buf) leaves buf equal to data, whatever buf held.
C15_PublicRoundTrip ==
  (/\ pc = "decoded"
   /\ received = Encode(data)
   /\ Length(data) >= 1
   /\ Length(out) = Length(data)) => out = data

C15_Witness ==
  /\ pc = "decoded"
  /\ received = Encode(data)
  /\ Length(data) = 13
  /\ out = data
  /\ data[12]

\* C16: with m = min(floor(len(received)/23), ceil(len(data)/12)), Decode
\* leaves in data[0 .. 12m), cut at len(data), the data words decode gives for
\* the first m blocks, and false in every position from 12m on; the bits of
\* received after its last whole block do not matter.
C16_ShortInput ==
  pc = "decoded" =>
    LET n == Length(out)
        m == Min(FloorDiv23(Length(received)), CeilDiv12(n))
        whole == Prefix(received, 23 * FloorDiv23(Length(received)))
    IN  /\ \A k \in 0 .. (n - 1) :
             out[k] = IF k < 12 * m
                      THEN decode(Block(received, k \div 12), 12).data[k % 12]
                      ELSE FALSE
        /\ out = Decode(whole, out)
        /\ out = Decode(whole, [k \in 0 .. (n - 1) |-> TRUE])

\* a 13-bit buffer and 30 received bits: one block decoded, bit 12 false
\* although the encoded input had it set
C16_Witness ==
  /\ pc = "decoded"
  /\ Length(out) = 13
  /\ Length(received) = 30
  /\ data[12]
  /\ \E k \in 0 .. 11 : out[k]
  /\ \E k \in 23 .. 29 : received[k]
  /\ ~out[12]

\* two data words, at most one flipped bit or any replaced parity, so that
\* every syndrome and every return of correctErrors occurs
NextTruncated ==
  \/ EncodeBlock({Word(1), Word(2)})
  \/ FlipBit(1)
  \/ GarbleParity
  \/ DecodeBlock

SpecTruncated == Init /\ [][NextTruncated]_vars

\* C17: for the received block and every k in 0..12, decode into a slice of k
\* elements writes the first k bits of what it writes into a slice of 12.
C17_TruncatedDecode ==
  Decoded =>
    \A k \in 0 .. 12 :
      LET short == decode(received, k).data
      IN  /\ Length(short) = k
          /\ \A t \in 0 .. (k - 1) : short[t] = out[t]

C17_Witness ==
  /\ Decoded
  /\ errs # {}
  /\ ret \in {"one", "two", "three"}
  /\ out # Prefix(received, 12)
  /\ decode(received, 8).data = Prefix(out, 8)

(***************************************************************************)
(* The stream Encoder and Decoder over MSB-aligned byte slices.  A byte    *)
(* slice is a function 0..n-1 -> 0..255; a bit reader or writer is the     *)
(* slice of its bits, most significant bit of each byte first.  In the     *)
(* stream specification data, received and out hold the byte slices        *)
(* testdata, encoded and decoded.                                          *)
(***************************************************************************)
MaxBytes == 3
TestBytes == {0, 85, 165, 240, 255}

\* NewBitReader(data, 0, 0): stream bit j is bit 7 - j mod 8 of data[j div 8]
BitsOfBytes(bs) ==
  [j \in 0 .. (8 * Length(bs) - 1) |->
     (bs[j \div 8] \div (2 ^ (7 - (j % 8)))) % 2 = 1]

\* NewEncoder / NewDecoder: SetBits(bits) when bits > 0, else every bit
NewReader(bs, nbits) ==
  IF nbits > 0 THEN Prefix(BitsOfBytes(bs), nbits) ELSE BitsOfBytes(bs)

\* reader.U16R(12, i): the i-th 12-bit chunk, zero bits after the last valid one
U16R(reader, i) ==
  [t \in 0 .. 11 |->
     IF i * 12 + t < Length(reader) THEN reader[i * 12 + t] ELSE FALSE]

\* reader.U32R(23, i): the i-th 23-bit chunk
U32R(reader, i) ==
  [t \in Positions |->
     IF i * 23 + t < Length(reader) THEN reader[i * 23 + t] ELSE FALSE]

\* writer.AnyData() into []uint8: the written bits packed from the most
\* significant bit, the last byte filled with zero bits
AnyData(w) ==
  [t \in 0 .. (((Length(w) + 7) \div 8) - 1) |->
     LET bit(j) == IF 8 * t + j < Length(w) /\ w[8 * t + j]
                   THEN 2 ^ (7 - j) ELSE 0
     IN  bit(0) + bit(1) + bit(2) + bit(3) + bit(4) + bit(5) + bit(6) + bit(7)]

\* Encoder.Encode writing the 11 parity bits before the 12 data bits
StreamEncodeParityFirst(reader) ==
  LET numBlocks == (Length(reader) + 11) \div 12
      written == [i \in 0 .. (numBlocks - 1) |->
                    LET b == U16R(reader, i)
                        p == encode(b)
                    IN  [k \in Positions |-> IF k < 11 THEN p[k] ELSE b[k - 11]]]
  IN  AnyData([k \in 0 .. (numBlocks * 23 - 1) |-> written[k \div 23][k % 23]])

\* (reader.Bits() + 11) / 12 rounded down instead of up
NumBlocksFloor(reader) == Length(reader) \div 12

\* numBlocks := (reader.Bits() + 11) / 12
NumBlocks(reader) == (Length(reader) + 11) \div 12

\* the loop of Encoder.Encode: per block the 12 data bits written first, then
\* the 11 parity bits
EncodeBlocks(reader) ==
  LET written == [i \in 0 .. (NumBlocks(reader) - 1) |->
                    LET b == U16R(reader, i)
                        p == encode(b)
                    IN  [k \in Positions |-> IF k < 12 THEN b[k] ELSE p[k - 12]]]
  IN  [k \in 0 .. (NumBlocks(reader) * 23 - 1) |-> written[k \div 23][k % 23]]

\* Encoder.Encode of stream.go: a fresh writer, its data stored in *v
StreamEncode(reader) == AnyData(EncodeBlocks(reader))

\* Decoder.Decode: per block the 12 decoded bits
StreamDecode(reader) ==
  LET numBlocks == Length(reader) \div 23
      written == [i \in 0 .. (numBlocks - 1) |->
                    decode(U32R(reader, i), 12).data]
  IN  AnyData([k \in 0 .. (numBlocks * 12 - 1) |-> written[k \div 12][k % 12]])

ByteSlices(n) == [0 .. (n - 1) -> TestBytes]

\* enc := NewEncoder(testdata, bits); enc.Encode(&encoded)
StreamEncodeCall ==
  /\ pc = "idle"
  /\ \E n \in 0 .. MaxBytes : \E bs \in ByteSlices(n) :
       /\ data' = bs
       /\ received' = StreamEncode(NewReader(bs, 8 * n))
  /\ pc' = "encoded"
  /\ UNCHANGED <<errs, syndrome, corrected, ret, flips, out,
               encoderVars, accumulatorVars, decoderVars, heap>>

\* dec := NewDecoder(encoded, enc.Bits()); dec.Decode(&decoded)
StreamDecodeCall ==
  /\ pc = "encoded"
  /\ out' = StreamDecode(NewReader(received, EncoderBits(8 * Length(data))))
  /\ pc' = "decoded"
  /\ UNCHANGED <<data, received, errs, syndrome, corrected, ret, flips,
               encoderVars, accumulatorVars, decoderVars, heap>>

NextStream == StreamEncodeCall \/ StreamDecodeCall
SpecStream == InitPublic /\ [][NextStream]_vars

\* C18: encoding n bytes with NewEncoder(data, 8n).Encode into a byte slice and
\* decoding that with NewDecoder(encoded, enc.Bits()).Decode gives a byte
\* slice whose first n bytes are the input.
C18_StreamRoundTrip ==
  pc = "decoded" =>
    /\ Length(out) >= Length(data)
    /\ \A t \in 0 .. (Length(data) - 1) : out[t] = data[t]

\* three bytes are two full chunks; one byte is a chunk padded with four
\* zero bits, which come back as a second decoded byte
C18_Witness ==
  /\ pc = "decoded"
  /\ Length(data) = 1
  /\ data[0] = 165
  /\ Length(received) = 3
  /\ Length(out) = 2
  /\ out[0] = 165
  /\ out[1] = 0

(***************************************************************************)
(* The stream Encoder that appends: NewEncoder(&output), then any number   *)
(* of Encode(data, bits) calls.                                            *)
(***************************************************************************)
MaxCalls == 2

\* what is passed as data: nil, a value that is no slice, a slice of an
\* unsupported element type, a byte slice
InputKinds == {"nil", "int", "[]string", "[]uint8"}

\* the error Encode returns before it touches its state, "nil" if none
EncodeError(kind) ==
  IF kind = "nil" THEN "data must not be nil"
  ELSE IF kind = "int" THEN "data must be a slice"
  ELSE IF kind = "[]string"
       THEN "data slice element type must satisfy BinaryValue constraint"
  ELSE "nil"

\* input bytes as in the README example
Sample(n) == [t \in 0 .. (n - 1) |-> <<255, 240, 171, 18, 52>>[(t % 5) + 1]]

\* the bits argument for n bytes: 0 (all bits), or a count that leaves the
\* last 3 or 7 bits of the last byte out
ValidBits(n) == {0} \cup {b \in {8 * n - 3, 8 * n - 7} : b > 0}

\* s followed by t
Concat(s, t) ==
  [k \in 0 .. (Length(s) + Length(t) - 1) |->
     IF k < Length(s) THEN s[k] ELSE t[k - Length(s)]]

\* e.Encode(data, bits)
EncoderEncode ==
  /\ \E kind \in InputKinds : \E n \in 0 .. MaxBytes :
     \E nbits \in ValidBits(n) :
       /\ err' = EncodeError(kind)
       /\ IF EncodeError(kind) # "nil"
          THEN /\ n = 0
               /\ UNCHANGED <<writer, bits, output, calls, heap>>
          ELSE /\ Len(calls) < MaxCalls
               /\ \E reader \in {NewReader(Sample(n), nbits)} :
                    /\ writer' = Concat(writer, EncodeBlocks(reader))
                    /\ bits' = bits + NumBlocks(reader) * 23
                    /\ output' = AnyData(Concat(writer, EncodeBlocks(reader)))
                    /\ calls' = Append(calls, Length(reader))
  /\ UNCHANGED <<codecVars, accumulatorVars, decoderVars, heap>>

NextEncoder == EncoderEncode
SpecEncoder == InitPublic /\ [][NextEncoder]_vars

RECURSIVE SumEncoded(_)
\* the sum of ceil(b / 12) * 23 over the bit counts b of a sequence
SumEncoded(seq) ==
  IF seq = << >> THEN 0
  ELSE CeilDiv12(Head(seq)) * 23 + SumEncoded(Tail(seq))

\* C19: Bits(), which returns the field bits, is the sum of ceil(b/12) * 23
\* over the valid bit counts b of the Encode calls that returned nil, and a
\* call that returns an error changes neither Bits() nor the output slice.
C19_AccumulatedBits ==
  /\ [](bits = SumEncoded(calls))
  /\ [][err' # "nil" => (bits' = bits /\ output' = output)]_vars

C19_Witness ==
  /\ Len(calls) = 2
  /\ calls[2] = 13
  /\ bits = 92
  /\ Length(output) = 12
  /\ err = "data must be a slice"

(***************************************************************************)
(* The Encoder that accumulates codewords.  A codeword is a uint32 whose   *)
(* low 23 bits are the 12 data bits followed by the 11 parity bits.        *)
(***************************************************************************)

\* bit k of the unsigned value v: (v & (1 << k)) != 0
Bit(v, k) == (v \div (2 ^ k)) % 2 = 1

\* the unsigned value of a slice of bits, first bit most significant
Value(s) ==
  LET RECURSIVE Acc(_, _)
      Acc(k, v) == IF k >= Length(s) THEN v
                   ELSE Acc(k + 1, 2 * v + (IF s[k] THEN 1 ELSE 0))
  IN  Acc(0, 0)

\* EncodeWord(block): the codeword of the 12-bit value block
EncodeWord(block) == block * 2048 + Value(encode(Bits12(block)))

RECURSIVE ShiftIn(_, _, _, _)
\* for j := start; j < end; j++ { block <<= 1; if data[j] { block |= 1 } }
ShiftIn(d, j, end, block) ==
  IF j >= end THEN block
  ELSE ShiftIn(d, j + 1, end, ((block * 2) % 65536) + (IF d[j] THEN 1 ELSE 0))

\* WriteBools with n := bits / 12, the last partial chunk left out
WrittenBoolsFloor(d) ==
  LET n == Length(d) \div 12
  IN  [i \in 1 .. n |->
         EncodeWord(ShiftIn(d, (i - 1) * 12, Min((i - 1) * 12 + 12, Length(d)), 0))]

\* the codewords WriteBools appends for the booleans d
WrittenBools(d) ==
  LET n == (Length(d) + 11) \div 12
  IN  [i \in 1 .. n |->
         EncodeWord(ShiftIn(d, (i - 1) * 12, Min((i - 1) * 12 + 12, Length(d)), 0))]

\* e.WriteBools(data...)
WriteBools ==
  /\ Len(lens) < MaxCalls
  /\ \E n \in 0 .. MaxLen : \E p \in 1 .. MaxPeriod :
       /\ blocks' = blocks \o WrittenBools(Pattern(n, p))
       /\ lens' = Append(lens, n)
       /\ input' = Pattern(n, p)
  /\ returned' = "none"
  /\ UNCHANGED <<codecVars, encoderVars, decoderVars, heap>>

\* e.Reset()
Reset ==
  /\ blocks' = << >>
  /\ lens' = << >>
  /\ input' = << >>
  /\ returned' = "none"
  /\ UNCHANGED <<codecVars, encoderVars, decoderVars, heap>>

\* e.Bits()
Bits == Len(blocks) * 23

\* e.Bools(): result is filled with the bits of the codewords, bit 22 first,
\* and nil is returned
Bools ==
  LET result == [k \in 0 .. (Bits - 1) |->
                   Bit(blocks[(k \div 23) + 1], 22 - (k % 23))]
  IN  << >>

\* bools := e.Bools()
CallBools ==
  /\ returned' = Bools
  /\ UNCHANGED <<blocks, lens, input, codecVars, encoderVars, decoderVars, heap>>

NextAccumulator == WriteBools \/ Reset \/ CallBools
SpecAccumulator == InitPublic /\ [][NextAccumulator]_vars

\* C20: Bools returns 23 * (number of stored codewords) booleans, element
\* 23 i + j being bit 22 - j of codeword i, in every state of the Encoder.
C20_BoolsLayout ==
  returned # "none" =>
    /\ Length(returned) = 23 * Len(blocks)
    /\ \A i \in 0 .. (Len(blocks) - 1) : \A j \in 0 .. 22 :
         returned[23 * i + j] = Bit(blocks[i + 1], 22 - j)

(***************************************************************************)
(* The Decoder that accumulates decoded blocks.  A uint64 is the set of    *)
(* the numbers of its set bits, bit k having the value 2^k; a byte and a   *)
(* codeword are numbers.                                                   *)
(***************************************************************************)

\* the 23 bits of a codeword, bit 22 first
Bits23(cw) == [k \in Positions |-> Bit(cw, 22 - k)]

\* Decode(cw): the 12-bit value decode leaves for the codeword's bits
DecodeWord(cw) == Value(decode(Bits23(cw), 12).data)

\* what WriteCodewords appends for the codewords cws
WrittenCodewords(cws) == [i \in 1 .. Len(cws) |-> DecodeWord(cws[i])]

\* e.Codewords()
Codewords == blocks

\* e.Uint64s(): stream position q = bitPos + j sets bit q % 64 of word q / 64
Uint64s ==
  [w \in 0 .. (((Bits + 63) \div 64) - 1) |->
     {k \in 0 .. 63 :
        /\ 64 * w + k < Bits
        /\ Bit(blocks[((64 * w + k) \div 23) + 1], 22 - ((64 * w + k) % 23))}]

\* the Encoder's codewords packed into bytes from the most significant bit,
\* as the comment of Bytes describes the layout
PackedBytes ==
  AnyData([q \in 0 .. (Bits - 1) |->
             Bit(blocks[(q \div 23) + 1], 22 - (q % 23))])

\* (x & y) != 0 for two bytes
AndNonZero(x, y) == \E k \in 0 .. 7 : Bit(x, k) /\ Bit(y, k)

\* the codewords WriteUint64s shifts together: codeword i takes the stream
\* positions j = 23i .. 23i + 22 below l, position j read as bit 63 - j % 64
\* of data[j / 64]
ReadUint64s(nbits, words) ==
  LET l == Length(words) * 64
  IN  [i \in 1 .. (nbits \div 23) |->
         LET start == Min((i - 1) * 23, l)
             end == Min(start + 23, l)
         IN  Value([t \in 0 .. (end - start - 1) |->
               (63 - ((start + t) % 64)) \in words[(start + t) \div 64]])]

\* the codewords WriteBytes shifts together: position j is read with the
\* mask byte(1<<7 - (j % 8)), that is 128 - j % 8
ReadBytes(nbits, bytes) ==
  LET l == Length(bytes) * 8
  IN  [i \in 1 .. (nbits \div 23) |->
         LET start == Min((i - 1) * 23, l)
             end == Min(start + 23, l)
         IN  Value([t \in 0 .. (end - start - 1) |->
               AndNonZero(bytes[(start + t) \div 8], 128 - ((start + t) % 8))])]

\* the first e.WriteBools(data...) of a sender whose output goes to a Decoder
FirstWrite ==
  /\ lens = << >>
  /\ wrote = << >>
  /\ via = "none"
  /\ WriteBools

\* d.decoded = append(d.decoded, Decode(cw)) for the codewords got that a
\* write of the Decoder read from its arguments; expect is what the same
\* Decoder would hold after WriteCodewords(e.Codewords()...)
Store(method, got) ==
  /\ lens # << >>
  /\ Len(wrote) < MaxCalls
  /\ \E all \in {WrittenCodewords(got \o Codewords)} :
       /\ decoded' = decoded \o SubSeq(all, 1, Len(all) - Len(Codewords))
       /\ expect' = decoded \o SubSeq(all, Len(all) - Len(Codewords) + 1, Len(all))
  /\ wrote' = wrote \o Codewords
  /\ via' = method
  /\ UNCHANGED <<codecVars, encoderVars, accumulatorVars, heap>>

\* d.WriteCodewords(e.Codewords()...)
WriteCodewords ==
  \E got \in {Codewords} :
    Store("WriteCodewords", got)

\* d.WriteUint64s(e.Bits(), e.Uint64s()...)
WriteUint64s ==
  \E words \in {Uint64s} :
    \E got \in {ReadUint64s(Bits, words) \o << >>} :
      Store("WriteUint64s", got)

\* d.WriteBytes(e.Bits(), data) for data holding the codewords packed from
\* the most significant bit
WriteBytes ==
  \E bytes \in {PackedBytes} :
    \E got \in {ReadBytes(Bits, bytes) \o << >>} :
      Store("WriteBytes", got)

\* d.Reset()
DecoderReset ==
  /\ decoded' = << >>
  /\ wrote' = << >>
  /\ expect' = << >>
  /\ via' = "Reset"
  /\ UNCHANGED <<codecVars, encoderVars, accumulatorVars, heap>>

\* d.Bits()
DecoderBitsTotal == Len(decoded) * 12

NextDecoder ==
  \/ FirstWrite
  \/ WriteCodewords
  \/ WriteUint64s
  \/ DecoderReset

SpecDecoder == InitPublic /\ [][NextDecoder]_vars

NextDecoderBytes ==
  \/ FirstWrite
  \/ WriteBytes
  \/ DecoderReset

SpecDecoderBytes == InitPublic /\ [][NextDecoderBytes]_vars

\* C21: after d.WriteUint64s(e.Bits(), e.Uint64s()...) the Decoder holds the
\* blocks it would hold after d.WriteCodewords(e.Codewords()...).
C21_Uint64sTransfer ==
  via = "WriteUint64s" => decoded = expect

\* C22: WriteBytes(23 * n, data) appends n blocks, block i decoded from the
\* codeword whose bits are the stream bits 23i .. 23i + 22 of data, stream
\* bit j being bit 7 - j % 8 of data[j / 8]; for data packed that way from the
\* sender's codewords these are the blocks WriteCodewords stores.
C22_BytesExtraction ==
  via = "WriteBytes" =>
    /\ Len(decoded) = Len(expect)
    /\ decoded = expect

\* C23: WriteBools of n booleans appends ceil(n/12) codewords, and they are
\* the blocks public Encode produces for the same slice: a last chunk of
\* n % 12 bits has them in the most significant positions of its data word,
\* zeros after them.
C23_WriteBoolsChunking ==
  lens # << >> =>
    LET n == Length(input)
        c == CeilDiv12(n)
        first == Len(blocks) - c
        public == Encode(input)
    IN  /\ first >= 0
        /\ Length(public) = 23 * c
        /\ \A i \in 1 .. c : \A k \in Positions :
             Bits23(blocks[first + i])[k] = public[23 * (i - 1) + k]

\* the return a search that matches at depth w takes
DepthName(w) ==
  CASE w = 0 -> "zero" [] w = 1 -> "one" [] w = 2 -> "two" [] w = 3 -> "three"

\* C24: a block with w = 0, 1, 2 or 3 flipped bits is matched at depth w
\* (zero syndrome, 1-bit loop, 2-bit loop, 3-bit loop) and exactly the
\* flipped positions are inverted.
C24_FlipCountIsWeight ==
  (Decoded /\ Cardinality(errs) <= 3) =>
    /\ ret = DepthName(Cardinality(errs))
    /\ flips = errs

\* the candidate patterns of the three searches: pos of the 1-bit loop,
\* (i, j) of the 2-bit loops, (i, j, l) of the 3-bit loops
Candidates ==
  {<<pos>> : pos \in Positions}
    \cup {c \in Positions \X Positions : c[1] < c[2]}
    \cup {c \in Positions \X Positions \X Positions : c[1] < c[2] /\ c[2] < c[3]}

\* candidate a is compared before candidate b: the 1-bit loop runs before the
\* 2-bit loops, these before the 3-bit loops, and nested loops count upwards
VisitedBefore(a, b) ==
  \/ Len(a) < Len(b)
  \/ /\ Len(a) = Len(b)
     /\ \E k \in 1 .. Len(a) :
          /\ a[k] < b[k]
          /\ \A m \in 1 .. (k - 1) : a[m] = b[m]

\* the comparison of a candidate with the syndrome
Matches(c, s) ==
  CASE Len(c) = 1 -> match1(s, c[1])
    [] Len(c) = 2 -> match2(s, c[1], c[2])
    [] Len(c) = 3 -> match3(s, c[1], c[2], c[3])

\* the positions of a set, ascending
Ascending(S) ==
  CHOOSE t \in [1 .. Cardinality(S) -> S] :
    \A a, b \in 1 .. Cardinality(S) : a < b => t[a] < t[b]

\* the candidates correctErrors has compared with the syndrome when it returns
\* at the candidate last, or after the last loop
ComparedUpTo(last) ==
  IF ret = "fallback" THEN Candidates
  ELSE {c \in Candidates : ~VisitedBefore(last, c)}

Compared == ComparedUpTo(Ascending(flips))

\* C25: correctErrors returns after comparing at most 23 + 253 + 1771 = 2047
\* candidates with the syndrome; it compares single positions upwards, then
\* pairs, then triples in lexicographic order, so no candidate before the one
\* it returns at matches, and after 2047 mismatches it returns the block as
\* received.
C25_SearchBound ==
  (Decoded /\ ret # "zero") =>
    \E last \in {Ascending(flips)} : \E compared \in {ComparedUpTo(last)} :
      /\ Cardinality(compared) \in 1 .. 2047
      /\ Cardinality(Candidates) = 23 + 253 + 1771
      /\ ret = "fallback" => Cardinality(compared) = 2047
      /\ ret # "fallback" =>
           /\ last \in compared
           /\ Matches(last, syndrome)
      /\ \A c \in compared :
           (ret = "fallback" \/ c # last) => ~Matches(c, syndrome)

C25_Witness ==
  /\ Decoded
  /\ ret = "fallback"
  /\ Cardinality(Compared) = 2047

\* ---- sums of blocks ------------------------------------------------------
MaxSummand == 31

\* the bitwise XOR of two slices of one length
Xor(a, b) == [k \in DOMAIN a |-> xorBool(a[k], b[k])]

\* the block of a second data word b is added to the block of data: received
\* becomes the XOR of the two blocks, errs the positions it changed, and data
\* the XOR of the two data words
XorBlock ==
  /\ pc = "encoded"
  /\ errs = {}
  /\ \E b \in {Word(n) : n \in 0 .. MaxSummand} : \E other \in {encodeHelper(b)} :
       /\ received' = Xor(received, other)
       /\ errs' = {k \in Positions : other[k]}
       /\ data' = Xor(data, b)
  /\ pc' = "summed"
  /\ UNCHANGED <<syndrome, corrected, ret, flips, out,
               encoderVars, accumulatorVars, decoderVars, heap>>

NextLinear ==
  \/ EncodeBlock(AllWords)
  \/ XorBlock

SpecLinear == Init /\ [][NextLinear]_vars

\* C26: the XOR of the blocks of two data words is the block of the XOR of
\* the data words, so its parity is the XOR of the two parities and it is a
\* codeword again; the block of the data word 0 is all zero.
C26_Linearity ==
  /\ pc = "summed" =>
       /\ received = encodeHelper(data)
       /\ isZero(Syndrome(received))
  /\ (pc = "encoded" /\ Weight(data) = 0) => Weight(received) = 0

C26_Witness ==
  /\ pc = "summed"
  /\ Cardinality(errs) >= 7
  /\ Weight(data) > 0
  /\ \E k \in 0 .. 11 : data[k] /\ k \notin errs
  /\ received = encodeHelper(data)

\* the number of positions where two blocks differ
Distance(a, b) == Cardinality({k \in Positions : a[k] # b[k]})

\* C27: when correctErrors returns from its 1-bit, 2-bit or 3-bit loop, the
\* block it returns has a zero syndrome and differs from the received block
\* in exactly the 1, 2 or 3 positions it inverted.
C27_MatchedIsCodeword ==
  (Decoded /\ ret \in {"one", "two", "three"}) =>
    /\ isZero(Syndrome(corrected))
    /\ Distance(corrected, received) = Cardinality(flips)
    /\ ret = DepthName(Cardinality(flips))

C27_Witness ==
  /\ Decoded
  /\ ret = "three"
  /\ flips # errs
  /\ isZero(Syndrome(corrected))
  /\ Distance(corrected, received) = 3

\* ---- the arguments of the internal calls --------------------------------
\* len(s[lo:hi]) for a slice of length n, -1 where the slice expression panics
SliceLen(lo, hi, n) == IF 0 <= lo /\ lo <= hi /\ hi <= n THEN hi - lo ELSE -1

\* the length checks of encode and of decode
encodePanics(ndata, nparity) == ndata # 12 \/ nparity # 11

decodePanics(nreceived, ndata) == nreceived # 23 \/ ndata > 12

\* the lengths of the two arguments of every encode call of Encode(data),
\* len(data) = n
EncodeCalls(n) ==
  IF n = 0 THEN << >>
  ELSE LET numBlocks == (n + 11) \div 12
       IN  [i \in 1 .. numBlocks |->
              LET resultStart == (i - 1) * 23
              IN  [data |-> SliceLen(resultStart, resultStart + 12, numBlocks * 23),
                   parity |-> SliceLen(resultStart + 12, resultStart + 23,
                                       numBlocks * 23)]]

\* Decode taking the number of blocks from the data length alone
DecodeCallsNeeded(nreceived, ndata) ==
  IF ndata = 0 THEN << >>
  ELSE LET numBlocks == (ndata + 11) \div 12
       IN  [i \in 1 .. numBlocks |->
              LET start == (i - 1) * 23
                  dataStart == (i - 1) * 12
                  decodeLen == IF ndata - dataStart < 12 THEN ndata - dataStart
                               ELSE 12
              IN  [received |-> SliceLen(start, start + 23, nreceived),
                   data |-> SliceLen(dataStart, dataStart + decodeLen, ndata)]]

\* the lengths of the two arguments of every decode call of
\* Decode(received, data), len(received) = nreceived and len(data) = ndata
DecodeCalls(nreceived, ndata) ==
  IF ndata = 0 THEN << >>
  ELSE LET numBlocksNeeded == (ndata + 11) \div 12
           numBlocksAvailable == nreceived \div 23
           numBlocks == Min(numBlocksAvailable, numBlocksNeeded)
       IN  [i \in 1 .. numBlocks |->
              LET start == (i - 1) * 23
                  dataStart == (i - 1) * 12
                  decodeLen == IF ndata - dataStart < 12 THEN ndata - dataStart
                               ELSE 12
              IN  [received |-> SliceLen(start, start + 23, nreceived),
                   data |-> SliceLen(dataStart, dataStart + decodeLen, ndata)]]

\* C28: every encode call of Encode gets 12 data bits and 11 parity bits and
\* every decode call of Decode gets 23 received bits and 1 to 12 data bits,
\* whatever the lengths of the slices given to Encode and Decode; no length
\* check of encode or decode fails.
C28_NoLengthPanic ==
  /\ pc # "idle" =>
       \E calls1 \in {EncodeCalls(Length(data))} :
         /\ Len(calls1) = CeilDiv12(Length(data))
         /\ \A i \in 1 .. Len(calls1) :
              /\ calls1[i].data = 12
              /\ calls1[i].parity = 11
              /\ ~encodePanics(calls1[i].data, calls1[i].parity)
  /\ pc = "decoded" =>
       \E calls2 \in {DecodeCalls(Length(received), Length(out))} :
         \A i \in 1 .. Len(calls2) :
           /\ calls2[i].received = 23
           /\ calls2[i].data \in 1 .. 12
           /\ ~decodePanics(calls2[i].received, calls2[i].data)

\* 13 data bits encoded in two blocks, the buffer of 13 bits decoded by two
\* decode calls, the second with a single data bit
C28_Witness ==
  /\ pc = "decoded"
  /\ Length(data) = 13
  /\ Length(received) = 46
  /\ Length(out) = 13
  /\ Len(EncodeCalls(Length(data))) = 2
  /\ DecodeCalls(Length(received), Length(out))[2].data = 1

\* ---- bookkeeping of the accumulating Encoder and Decoder -----------------
\* e.WriteBools(data...) for a slice of any length whose elements are all
\* true, and e.Reset(), of a sender before its Decoder is given anything
SenderWrite ==
  /\ wrote = << >>
  /\ via = "none"
  /\ WriteBools
  /\ \A k \in DOMAIN input' : input'[k]

SenderReset ==
  /\ wrote = << >>
  /\ via = "none"
  /\ lens # << >>
  /\ Reset

NextBookkeeping ==
  \/ SenderWrite
  \/ SenderReset
  \/ WriteCodewords
  \/ DecoderReset

SpecBookkeeping == InitPublic /\ [][NextBookkeeping]_vars

RECURSIVE SumChunks(_)
\* the sum of ceil(n / 12) over the lengths n of a sequence
SumChunks(seq) ==
  IF seq = << >> THEN 0
  ELSE CeilDiv12(Head(seq)) + SumChunks(Tail(seq))

\* C29: Bits() of the Encoder is 23 times the sum of ceil(n/12) over the
\* lengths n given to WriteBools since the last Reset, a later write leaves
\* the codewords of earlier writes as Codewords() returned them, and Bits()
\* of the Decoder is 12 times the number of codewords given to
\* WriteCodewords since its last Reset.
C29_Bookkeeping ==
  /\ [](Bits = 23 * SumChunks(lens))
  /\ [][Len(lens') > Len(lens) =>
          /\ Len(blocks') >= Len(blocks)
          /\ SubSeq(blocks', 1, Len(blocks)) = Codewords]_vars
  /\ [](DecoderBitsTotal = 12 * Len(wrote))

C29_Witness ==
  /\ Len(lens) = 2
  /\ lens[1] = 13
  /\ lens[2] = 1
  /\ Bits = 69
  /\ Len(wrote) = 3
  /\ DecoderBitsTotal = 36

\* ---- slices as references into arrays -----------------------------------
\* A heap maps the name of an array to its elements; a slice is a window
\* [arr, off, len] on an array, so two slices of one array share elements.
ArrayNames == {"received", "data", "result", "corrected", "returned", "g", "h"}

Slice(arr, off, len) == [arr |-> arr, off |-> off, len |-> len]

\* s[i] and s[i] = v
Load(hp, s, i) == hp[s.arr][s.off + i]

StoreAt(hp, s, i, v) == [hp EXCEPT ![s.arr][s.off + i] = v]

\* the arrays a caller holds before a call: its received and data slices and
\* the two tables; the other arrays are not allocated yet
CallerHeap(rcv, buf) ==
  [n \in ArrayNames |->
     CASE n = "received" -> rcv
       [] n = "data" -> buf
       [] n = "g" -> g
       [] n = "h" -> h
       [] OTHER -> << >>]

\* the elements of a slice
Elements(hp, s) == [k \in 0 .. (s.len - 1) |-> Load(hp, s, k)]

RECURSIVE copyEffect(_, _, _, _, _)
\* copy(dst, src) for the first n elements, from element k on
copyEffect(hp, dst, src, k, n) ==
  IF k >= n THEN hp
  ELSE copyEffect(StoreAt(hp, dst, k, Load(hp, src, k)), dst, src, k + 1, n)

RECURSIVE parityLoop(_, _, _, _)
\* the loop of encode from parity bit i on: parity[i] = p
parityLoop(hp, dataS, parityS, i) ==
  IF i > 10 THEN hp
  ELSE parityLoop(
         StoreAt(hp, parityS, i,
                 Toggled({j \in 0 .. 11 : Load(hp, dataS, j) /\ g[j * 11 + i + 1]})),
         dataS, parityS, i + 1)

\* encode(data, parity) on the heap
encodeEffect(hp, dataS, parityS) == parityLoop(hp, dataS, parityS, 0)

\* Encode(d) for one block: result is made, the data copied in, and encode
\* is given two windows of result
EncodeEffect(hp, d) ==
  encodeEffect([hp EXCEPT !["result"] =
                  [k \in Positions |-> IF k < 12 THEN d[k] ELSE FALSE]],
               Slice("result", 0, 12), Slice("result", 12, 11))

\* correctErrors inverting the matched positions in the slice it was given
correctErrorsInPlace(hp, rcvS, synd) ==
  LET m == searchLoops(synd)
  IN  [heap |-> [hp EXCEPT ![rcvS.arr] =
                   [k \in DOMAIN hp[rcvS.arr] |->
                      IF (k - rcvS.off) \in m.flips THEN ~hp[rcvS.arr][k]
                      ELSE hp[rcvS.arr][k]]],
       ref |-> rcvS]

\* correctErrors on the heap: corrected := make([]bool, 23), copy, inversion
\* of the matched positions, return of the new slice
correctErrorsEffect(hp, rcvS, synd) ==
  LET m == searchLoops(synd)
  IN  [heap |-> [hp EXCEPT !["returned"] = Flipped(Elements(hp, rcvS), m.flips)],
       ref |-> Slice("returned", 0, 23)]

\* decode(received, data) on the heap
decodeEffect(hp, rcvS, dataS) ==
  LET s == Syndrome(Elements(hp, rcvS))
      copied == [heap |-> [hp EXCEPT !["corrected"] = Elements(hp, rcvS)],
                 ref |-> Slice("corrected", 0, 23)]
      c == IF isZero(s) THEN copied
           ELSE correctErrorsEffect(copied.heap, rcvS, s)
  IN  copyEffect(c.heap, dataS, c.ref, 0, dataS.len)

RECURSIVE decodeLoop(_, _, _, _, _)
\* the block loop of Decode from block i on
decodeLoop(hp, nreceived, ndata, i, numBlocks) ==
  IF i >= numBlocks THEN hp
  ELSE decodeLoop(
         decodeEffect(hp, Slice("received", i * 23, 23),
                      Slice("data", i * 12,
                            IF ndata - i * 12 < 12 THEN ndata - i * 12 ELSE 12)),
         nreceived, ndata, i + 1, numBlocks)

\* Decode(received, data) on the heap
DecodeEffect(hp) ==
  LET nreceived == Length(hp["received"])
      ndata == Length(hp["data"])
      numBlocks == Min(nreceived \div 23, (ndata + 11) \div 12)
  IN  IF ndata = 0 THEN hp
      ELSE [decodeLoop(hp, nreceived, ndata, 0, numBlocks) EXCEPT !["data"] =
              [k \in DOMAIN @ |-> IF k >= numBlocks * 12 THEN FALSE ELSE @[k]]]

\* Encode of one 12-bit slice, run on the heap: data is the caller's slice,
\* received the block returned
EncodeOnHeap ==
  /\ pc = "idle"
  /\ \E d \in {Word(1), Word(2)} :
       \E hp \in {EncodeEffect(CallerHeap(<< >>, d), d)} :
         /\ heap' = hp
         /\ data' = hp["data"]
         /\ received' = hp["result"]
  /\ pc' = "encoded"
  /\ errs' = {}
  /\ UNCHANGED <<syndrome, corrected, ret, flips, out,
               encoderVars, accumulatorVars, decoderVars>>

\* Decode(received, buf) for a buffer of any length as make returns it, run
\* on the heap
DecodeOnHeap ==
  /\ pc = "encoded"
  /\ \E m \in 0 .. MaxLen :
       \E hp \in {DecodeEffect(CallerHeap(received, [k \in 0 .. (m - 1) |-> FALSE]))} :
         /\ heap' = hp
         /\ received' = hp["received"]
         /\ out' = hp["data"]
  /\ pc' = "decoded"
  /\ UNCHANGED <<data, errs, syndrome, corrected, ret, flips,
               encoderVars, accumulatorVars, decoderVars>>

NextHeap ==
  \/ EncodeOnHeap
  \/ FlipBit(1)
  \/ GarbleParity
  \/ DecodeOnHeap

SpecHeap == Init /\ [][NextHeap]_vars

\* C30: a call of Decode, with the decode and correctErrors calls it makes,
\* leaves the received slice and the tables g and h as they were and writes
\* the data argument only; a call of encode leaves its 12 data bits and the
\* tables as they were.
C30_InputsUntouched ==
  [][/\ (pc = "encoded" /\ pc' = "decoded") =>
          /\ received' = received
          /\ heap'["received"] = received
          /\ heap'["g"] = g
          /\ heap'["h"] = h
          /\ heap'["result"] = << >>
          /\ Length(out') = Length(heap'["data"])
     /\ (pc = "idle" /\ pc' = "encoded") =>
          /\ Prefix(heap'["result"], 12) = data'
          /\ heap'["data"] = data'
          /\ heap'["g"] = g
          /\ heap'["h"] = h]_vars

\* a block with flipped bits decoded: correctErrors returned a new array with
\* the correction, the received slice still has the flipped bits
C30_Witness ==
  /\ pc = "decoded"
  /\ errs # {}
  /\ heap["returned"] # << >>
  /\ heap["returned"] # received
  /\ heap["received"] = received
  /\ Length(out) = 12
  /\ out = Prefix(heap["returned"], 12)
  /\ out = data

====
